---- MODULE Spec2Model ----
(***************************************************************************)
(* A model of kfac_jax/_src/utils/math.py: the chunked vmap averager, the  *)
(* pi-adjusted Kronecker inverse, the axis-grouped Kronecker products, the *)
(* safe PSD eigendecomposition, and the matrix norm, weighted sum, inner   *)
(* product matrix and block permutation functions.                         *)
(*                                                                         *)
(* Numbers are exact extended rationals <<n, d>>: d > 0 and gcd(n, d) = 1  *)
(* for a finite value, <<1, 0>> and <<-1, 0>> for +Inf and -Inf, <<0, 0>>  *)
(* for NaN.  This is the arithmetic of the floating point operations the   *)
(* code uses with rounding left out (the claims are stated "in exact       *)
(* arithmetic" or "up to summation order").                                *)
(***************************************************************************)
EXTENDS Integers, Sequences, FiniteSets, TLC

VARIABLES
  \* ---- loop_and_parallelize_average ----
  func_size,            \* singleton_size of func's output (func is fixed at construction)
  max_parallel_size,    \* the closure's max_parallel_size: None or <<integer>>
  avg_pc,               \* position inside average_func
  args,                 \* the argument leaves of the current call
  leading_size, parallel_size, num_parallel_chunks, remainder_size,
  traces,               \* number of times func was traced (make_jaxpr) in this call
  passes,               \* the vmap passes made so far: <<first index, size>>
  accumulator,          \* the scan carry
  averaged_value,
  avg_result,           \* [status, value] of the call
  \* ---- pi_adjusted_kronecker_inverse ----
  special_case_zero_inv,  \* the module global _SPECIAL_CASE_ZERO_INV
  inv_call,               \* 1 while a call's result is held by the caller, else 0
  arrays, damping,        \* the arguments of the last call
  inv_branches,           \* the branches (regular / zero) the last call ran
  inv_result,             \* the tuple the last call returned
  \* ---- kronecker_product_axis_mul_v / kronecker_eigen_basis_axis_mul_v ----
  kron_in,                \* the arguments of the last call
  kron_out,               \* [status, value, contractions] of the last call
  \* ---- safe_psd_eigh ----
  eigh_pc,                \* position inside safe_psd_eigh
  eigh_x, force_on_host,  \* the arguments of the current call
  eigh_s, eigh_q,         \* the locals s, q
  eigh_src,               \* what produced s, q: "nan_input", "standard" or "host"
  std_runs, host_runs,    \* calls of jnp.linalg.eigh / np.linalg.eigh in this call
  eigh_ret,               \* the pair the call returned
  \* ---- psd_matrix_norm, weighted_sum_of_objects,
  \*      symmetric_matrix_inner_products, block_permuted ----
  call_in,                \* the function called last and its arguments
  call_out                \* what that call returned or raised

avg_vars  == <<func_size, max_parallel_size, avg_pc, args, leading_size,
               parallel_size, num_parallel_chunks, remainder_size, traces,
               passes, accumulator, averaged_value, avg_result>>
inv_vars  == <<special_case_zero_inv, inv_call, arrays, damping, inv_branches,
               inv_result>>
kron_vars == <<kron_in, kron_out>>
eigh_vars == <<eigh_pc, eigh_x, force_on_host, eigh_s, eigh_q, eigh_src,
               std_runs, host_runs, eigh_ret>>
call_vars == <<call_in, call_out>>
vars == <<avg_vars, inv_vars, kron_vars, eigh_vars, call_vars>>

-----------------------------------------------------------------------------
(* Exact extended-rational arithmetic.                                     *)

Abs(i) == IF i < 0 THEN -i ELSE i
Sign(i) == IF i > 0 THEN 1 ELSE IF i < 0 THEN -1 ELSE 0

RECURSIVE GCD(_, _)
GCD(a, b) == IF b = 0 THEN a ELSE GCD(b, a % b)

NaN    == <<0, 0>>
PosInf == <<1, 0>>
NegInf == <<-1, 0>>
Zero   == <<0, 1>>
One    == <<1, 1>>

\* the canonical form of n/d (d of any sign; d = 0 gives an infinity or NaN)
Q(n, d) ==
  IF d = 0 THEN <<Sign(n), 0>>
  ELSE LET g == GCD(Abs(n), Abs(d))
       IN  <<(Sign(d) * n) \div g, Abs(d) \div g>>

OfInt(i) == <<i, 1>>
IsNaN(a) == a = NaN
IsFinite(a) == a[2] > 0
IsInf(a) == a[2] = 0 /\ a[1] # 0

XAdd(a, b) ==
  IF a = Zero THEN b
  ELSE IF b = Zero THEN a
  ELSE IF IsNaN(a) \/ IsNaN(b) THEN NaN
  ELSE IF IsInf(a) /\ IsInf(b) THEN (IF a = b THEN a ELSE NaN)
  ELSE IF IsInf(a) THEN a
  ELSE IF IsInf(b) THEN b
  ELSE LET g == GCD(a[2], b[2])       \* over the least common denominator
       IN  Q(a[1] * (b[2] \div g) + b[1] * (a[2] \div g), (a[2] \div g) * b[2])

XNeg(a) == <<-a[1], a[2]>>
XSub(a, b) == XAdd(a, XNeg(b))
XMul(a, b) ==
  IF a = One THEN b
  ELSE IF b = One THEN a
  ELSE IF (a = Zero /\ IsFinite(b)) \/ (b = Zero /\ IsFinite(a)) THEN Zero
  ELSE IF ~IsFinite(a) \/ ~IsFinite(b) THEN Q(a[1] * b[1], a[2] * b[2])
  ELSE LET g == GCD(Abs(a[1]), b[2])  \* cancelling across before multiplying
           h == GCD(Abs(b[1]), a[2])
       IN  Q((a[1] \div g) * (b[1] \div h), (a[2] \div h) * (b[2] \div g))

\* 1/a, IEEE style: 1/0 = +Inf, 1/Inf = 0, 1/NaN = NaN
XInv(a) ==
  IF a[1] > 0 THEN <<a[2], a[1]>>
  ELSE IF a[1] < 0 THEN <<-a[2], -a[1]>>
  ELSE IF a[2] = 0 THEN NaN ELSE PosInf

XDiv(a, b) == XMul(a, XInv(b))

\* a > b, false when either is NaN (jnp.greater)
XGreater(a, b) ==
  /\ ~IsNaN(a) /\ ~IsNaN(b)
  /\ a # b
  /\ IF IsInf(a) \/ IsInf(b)
       THEN (a = PosInf \/ b = NegInf)
       ELSE a[1] * b[2] > b[1] * a[2]

XLeq(a, b) == ~IsNaN(a) /\ ~IsNaN(b) /\ ~XGreater(a, b)
XAbs(a) == <<Abs(a[1]), a[2]>>

\* b^e, or some number above cap when b^e > cap (no overflow)
RECURSIVE IPow(_, _, _)
IPow(b, e, cap) ==
  IF e = 0 THEN 1
  ELSE LET p == IPow(b, e - 1, cap) IN IF p > cap THEN p ELSE b * p

\* whether the natural number n has an integer k-th root, and that root
HasIRoot(n, k) == \E r \in 0..n : IPow(r, k, n + 1) = n
IRoot(n, k) == CHOOSE r \in 0..n : IPow(r, k, n + 1) = n

\* whether a^(1/k) is a rational (or Inf / NaN): the model only runs the
\* inputs on which every root the code takes is exact
RootExact(a, k) ==
  \/ ~IsFinite(a)
  \/ k = 1
  \/ a[1] < 0
  \/ HasIRoot(a[1], k) /\ HasIRoot(a[2], k)

\* jnp.power(a, 1.0 / k)
XRoot(a, k) ==
  IF IsNaN(a) THEN NaN
  ELSE IF k = 1 THEN a
  ELSE IF IsInf(a) THEN PosInf
  ELSE IF a[1] < 0 THEN NaN
  ELSE <<IRoot(a[1], k), IRoot(a[2], k)>>

RECURSIVE XPowN(_, _)
XPowN(a, e) == IF e = 0 THEN One ELSE XMul(a, XPowN(a, e - 1))

RECURSIVE XSum(_)
XSum(s) == IF s = <<>> THEN Zero ELSE XAdd(Head(s), XSum(Tail(s)))

RECURSIVE XProd(_)
XProd(s) == IF s = <<>> THEN One ELSE XMul(Head(s), XProd(Tail(s)))

RECURSIVE IProd(_)
IProd(s) == IF s = <<>> THEN 1 ELSE Head(s) * IProd(Tail(s))

Min2(a, b) == IF a < b THEN a ELSE b
Max2(a, b) == IF a > b THEN a ELSE b

-----------------------------------------------------------------------------
(* scalar_mul, scalar_div, weighted_sum_of_objects (lines 76-134).         *)
(* An object is a flat array: a sequence of numbers; two objects have the  *)
(* same abstract structure when they have the same length.                 *)

MapMul(obj, scalar) == [i \in 1..Len(obj) |-> XMul(obj[i], scalar)]

scalar_mul(obj, scalar) == IF scalar = One THEN obj ELSE MapMul(obj, scalar)

scalar_div(obj, scalar) ==
  IF scalar = One THEN obj ELSE [i \in 1..Len(obj) |-> XDiv(obj[i], scalar)]

TreeAdd(x, y) == [i \in 1..Len(x) |-> XAdd(x[i], y[i])]

abstract_objects_equal(x, y) == Len(x) = Len(y)

\* the loop of lines 127-132 over objects[k..]: acc is [status, value, muls]
RECURSIVE WeightedSumLoop(_, _, _, _)
WeightedSumLoop(acc, objects, coefficients, k) ==
  IF k > Len(objects) THEN acc
  ELSE IF ~abstract_objects_equal(acc.value, objects[k])
    THEN [acc EXCEPT !.status = "ValueError_abstract_structure"]
    ELSE WeightedSumLoop(
           [status |-> "ok",
            value  |-> TreeAdd(acc.value, scalar_mul(objects[k], coefficients[k])),
            muls   |-> acc.muls + 1],
           objects, coefficients, k + 1)

\* a weighted sum that compares every structure before it multiplies
WeightedSumChecksFirst(objects, coefficients) ==
  IF Len(objects) # Len(coefficients)
    THEN [status |-> "ValueError_number_of_coefficients", value |-> <<>>,
          muls |-> 0]
  ELSE IF objects = <<>>
    THEN [status |-> "ValueError_empty_objects", value |-> <<>>, muls |-> 0]
  ELSE IF \E k \in 2..Len(objects) : ~abstract_objects_equal(objects[1], objects[k])
    THEN [status |-> "ValueError_abstract_structure", value |-> <<>>, muls |-> 0]
  ELSE WeightedSumLoop(
         [status |-> "ok", value |-> scalar_mul(objects[1], coefficients[1]),
          muls |-> 1],
         objects, coefficients, 2)

\* lines 102-134
weighted_sum_of_objects(objects, coefficients) ==
  IF Len(objects) # Len(coefficients)
    THEN [status |-> "ValueError_number_of_coefficients", value |-> <<>>,
          muls |-> 0]
  ELSE IF objects = <<>>
    THEN [status |-> "ValueError_empty_objects", value |-> <<>>, muls |-> 0]
  ELSE WeightedSumLoop(
         [status |-> "ok", value |-> scalar_mul(objects[1], coefficients[1]),
          muls |-> 1],
         objects, coefficients, 2)

-----------------------------------------------------------------------------
(* loop_and_parallelize_average (lines 773-881).                           *)

MaxLead == 5        \* largest leading axis size of an argument leaf
MaxFuncSize == 2    \* largest singleton_size of func's output
MaxParallel == 10   \* largest integer max_parallel_size

\* Python's None (an optional integer is None or <<i>>)
None == <<>>

\* func: the per-example function; an example is one entry of every leaf.
\* It returns an array of func_size elements.
func(example, size) ==
  LET x == XSum([i \in 1..Len(example) |-> OfInt(example[i])])
  IN  [j \in 1..size |->
         IF j = 1 THEN x
         ELSE IF j = 2 THEN XMul(x, x)
         ELSE XAdd(x, OfInt(j))]

\* the example at (0-based) index i of the batch
ExampleAt(leaves, i) == [k \in 1..Len(leaves) |-> leaves[k][i + 1]]

\* the mean over axis 0 of vmap_fn on the examples first..first+size-1
VmapMean(leaves, first, size, fsize) ==
  [j \in 1..fsize |->
     XDiv(XSum([i \in 1..size |-> func(ExampleAt(leaves, first + i - 1), fsize)[j]]),
          OfInt(size))]

Zeros(n) == [j \in 1..n |-> Zero]

ArgValues == {0, 1}   \* the entries of the first argument leaf
Leaves == UNION {[1..n -> ArgValues] : n \in 1..MaxLead}
SecondLeaf(n) == [i \in 1..n |-> i % 2]
ArgsSet ==
  {<<>>} \cup {<<l>> : l \in Leaves}
         \cup {<<l, SecondLeaf(n)>> : l \in Leaves, n \in 1..MaxLead}

lead_axis_sizes(leaves) == {Len(leaves[k]) : k \in 1..Len(leaves)}

\* a variant that reads the budget as a number of examples
ParallelSizeInExamples(msize, ssize, lsize) ==
  IF msize = None \/ ssize * lsize <= msize[1]
    THEN lsize
    ELSE Max2(Min2(msize[1], lsize), 1)

\* lines 821-827
ParallelSize(msize, ssize, lsize) ==
  IF msize = None \/ ssize * lsize <= msize[1]
    THEN lsize
    ELSE Max2(Min2(msize[1] \div ssize, lsize), 1)

RemainderDropped(lsize, psize) == 0

\* line 833
NumParallelChunks(lsize, psize) == lsize \div psize

\* line 834
RemainderSize(lsize, psize) == lsize % psize

AvgCallReset ==
  /\ leading_size' = 0 /\ parallel_size' = 0 /\ num_parallel_chunks' = 0
  /\ remainder_size' = 0 /\ passes' = <<>> /\ accumulator' = <<>>
  /\ averaged_value' = <<>>

\* average_func is called: lines 802-838
AverageFuncEnter ==
  /\ avg_pc = "idle"
  /\ \E a \in ArgsSet :
       /\ args' = a
       /\ IF lead_axis_sizes(a) = {}
            THEN /\ avg_pc' = "error"
                 /\ avg_result' = [status |-> "ValueError_no_leaf", value |-> <<>>]
                 /\ traces' = 0
                 /\ AvgCallReset
          ELSE IF Cardinality(lead_axis_sizes(a)) # 1
            THEN /\ avg_pc' = "error"
                 /\ avg_result' = [status |-> "ValueError_leading_sizes", value |-> <<>>]
                 /\ traces' = 0
                 /\ AvgCallReset
          ELSE LET lsize == CHOOSE n \in lead_axis_sizes(a) : TRUE
                   psize == ParallelSize(max_parallel_size, func_size, lsize)
               IN  /\ leading_size' = lsize
                   /\ traces' = 1
                   /\ parallel_size' = psize
                   /\ num_parallel_chunks' = NumParallelChunks(lsize, psize)
                   /\ remainder_size' = RemainderSize(lsize, psize)
                   /\ passes' = <<>>
                   /\ accumulator' = Zeros(func_size)
                   /\ averaged_value' = <<>>
                   /\ avg_result' = [status |-> "running", value |-> <<>>]
                   /\ avg_pc' = "loop"
  /\ UNCHANGED <<func_size, max_parallel_size>>

all_chunks_size == leading_size - remainder_size

\* lines 840-841: one chunk, one vmap pass over loop_args
SinglePass ==
  /\ avg_pc = "loop"
  /\ num_parallel_chunks = 1
  /\ averaged_value' = VmapMean(args, 0, all_chunks_size, func_size)
  /\ passes' = Append(passes, <<0, all_chunks_size>>)
  /\ avg_pc' = "tail"
  /\ UNCHANGED <<func_size, max_parallel_size, args, leading_size, parallel_size,
                 num_parallel_chunks, remainder_size, traces, accumulator,
                 avg_result>>

\* lines 845-852: one iteration of the scan, over row Len(passes) of the
\* reshaped loop_args
ScanStep ==
  /\ avg_pc = "loop"
  /\ num_parallel_chunks # 1
  /\ Len(passes) < num_parallel_chunks
  /\ LET first == Len(passes) * parallel_size
     IN  /\ accumulator' = TreeAdd(accumulator,
                                   VmapMean(args, first, parallel_size, func_size))
         /\ passes' = Append(passes, <<first, parallel_size>>)
  /\ UNCHANGED <<func_size, max_parallel_size, avg_pc, args, leading_size,
                 parallel_size, num_parallel_chunks, remainder_size, traces,
                 averaged_value, avg_result>>

ScanAverageNoDiv(summed, chunks) == summed

\* line 866
ScanAverage(summed, chunks) == scalar_div(summed, OfInt(chunks))

ScanDone ==
  /\ avg_pc = "loop"
  /\ num_parallel_chunks # 1
  /\ Len(passes) = num_parallel_chunks
  /\ averaged_value' = ScanAverage(accumulator, num_parallel_chunks)
  /\ avg_pc' = "tail"
  /\ UNCHANGED <<func_size, max_parallel_size, args, leading_size, parallel_size,
                 num_parallel_chunks, remainder_size, traces, passes, accumulator,
                 avg_result>>

\* lines 868-869
ReturnAveraged ==
  /\ avg_pc = "tail"
  /\ remainder_size = 0
  /\ avg_result' = [status |-> "ok", value |-> averaged_value]
  /\ avg_pc' = "done"
  /\ UNCHANGED <<func_size, max_parallel_size, args, leading_size, parallel_size,
                 num_parallel_chunks, remainder_size, traces, passes, accumulator,
                 averaged_value>>

\* lines 871-879
RemainderPass ==
  /\ avg_pc = "tail"
  /\ remainder_size # 0
  /\ LET remainder_value ==
           VmapMean(args, all_chunks_size, remainder_size, func_size)
         avg_weight == XDiv(OfInt(all_chunks_size), OfInt(leading_size))
         remainder_weight == XDiv(OfInt(remainder_size), OfInt(leading_size))
         w == weighted_sum_of_objects(<<averaged_value, remainder_value>>,
                                      <<avg_weight, remainder_weight>>)
     IN  /\ avg_result' = [status |-> w.status, value |-> w.value]
         /\ avg_pc' = IF w.status = "ok" THEN "done" ELSE "error"
  /\ passes' = Append(passes, <<all_chunks_size, remainder_size>>)
  /\ UNCHANGED <<func_size, max_parallel_size, args, leading_size, parallel_size,
                 num_parallel_chunks, remainder_size, traces, accumulator,
                 averaged_value>>

\* the call has returned or raised; its frame is gone and the closure can be
\* called again
AverageFuncExit ==
  /\ avg_pc \in {"done", "error"}
  /\ avg_pc' = "idle"
  /\ args' = <<>>
  /\ traces' = 0
  /\ avg_result' = [status |-> "none", value |-> <<>>]
  /\ AvgCallReset
  /\ UNCHANGED <<func_size, max_parallel_size>>

AvgIdle ==
  /\ avg_pc = "idle" /\ args = <<>> /\ leading_size = 0 /\ parallel_size = 0
  /\ num_parallel_chunks = 0 /\ remainder_size = 0 /\ traces = 0
  /\ passes = <<>> /\ accumulator = <<>> /\ averaged_value = <<>>
  /\ avg_result = [status |-> "none", value |-> <<>>]

\* loop_and_parallelize_average(func, max_parallel_size) has returned
\* average_func, which has not been called yet
InitAvg ==
  /\ func_size \in 1..MaxFuncSize
  /\ max_parallel_size \in {None} \cup {<<m>> : m \in 1..MaxParallel}
  /\ AvgIdle

\* the averager as the other specifications hold it: built and never called
StillAvg == func_size = 1 /\ max_parallel_size = None /\ AvgIdle

-----------------------------------------------------------------------------
(* Arrays and dense matrices.                                              *)
(* An array of rank 0, 1 or 2 is [ndim, n, e]: e holds the entries in row  *)
(* major order (1 entry, n entries, n * n entries).                        *)

Scalar(x)    == [ndim |-> 0, n |-> 1, e |-> <<x>>]
Vector(xs)   == [ndim |-> 1, n |-> Len(xs), e |-> xs]
Matrix(n, xs) == [ndim |-> 2, n |-> n, e |-> xs]

Size(a) == Len(a.e)
At(m, i, j) == m.e[(i - 1) * m.n + j]      \* entry (i, j) of a rank-2 array, 1-based

MapArray(a, F(_)) == [a EXCEPT !.e = [i \in 1..Len(a.e) |-> F(a.e[i])]]
ArrayDiv(a, x) == [a EXCEPT !.e = [i \in 1..Len(a.e) |-> XDiv(a.e[i], x)]]

\* jnp.eye(n)
Eye(n) == Matrix(n, [k \in 1..(n * n) |->
                       IF (k - 1) \div n = (k - 1) % n THEN One ELSE Zero])
\* jnp.ones_like(a)
OnesLike(a) == [a EXCEPT !.e = [i \in 1..Len(a.e) |-> One]]
NaNLike(a) == [a EXCEPT !.e = [i \in 1..Len(a.e) |-> NaN]]

\* the square matrix an array stands for: a scalar is 1 x 1, a vector is a
\* diagonal
Dense(a) ==
  IF a.ndim = 2 THEN a
  ELSE Matrix(a.n, [k \in 1..(a.n * a.n) |->
                      IF (k - 1) \div a.n = (k - 1) % a.n
                        THEN a.e[((k - 1) % a.n) + 1] ELSE Zero])

MatMul(a, b) ==
  Matrix(a.n, [k \in 1..(a.n * a.n) |->
     LET i == ((k - 1) \div a.n) + 1
         j == ((k - 1) % a.n) + 1
     IN  XSum([l \in 1..a.n |-> XMul(At(a, i, l), At(b, l, j))])])

MatAdd(a, b) == [a EXCEPT !.e = [k \in 1..Len(a.e) |-> XAdd(a.e[k], b.e[k])]]
MatScale(a, x) == [a EXCEPT !.e = [k \in 1..Len(a.e) |-> XMul(a.e[k], x)]]
Transposed(a) ==
  Matrix(a.n, [k \in 1..(a.n * a.n) |->
     At(a, ((k - 1) % a.n) + 1, ((k - 1) \div a.n) + 1)])

\* the Kronecker product of two square matrices
Kron2(a, b) ==
  Matrix(a.n * b.n, [k \in 1..(a.n * b.n * a.n * b.n) |->
     LET i == (k - 1) \div (a.n * b.n)
         j == (k - 1) % (a.n * b.n)
     IN  XMul(At(a, (i \div b.n) + 1, (j \div b.n) + 1),
              At(b, (i % b.n) + 1, (j % b.n) + 1))])

RECURSIVE Kron(_)
Kron(ms) == IF ms = <<>> THEN Eye(1) ELSE Kron2(Head(ms), Kron(Tail(ms)))

-----------------------------------------------------------------------------
(* set_special_case_zero_inv, get_special_case_zero_inv, psd_inv_cholesky, *)
(* psd_matrix_norm (avg_trace) and pi_adjusted_kronecker_inverse.          *)

GetIgnoringSet == TRUE

\* lines 52-54
get_special_case_zero_inv == special_case_zero_inv

\* psd_matrix_norm(matrix, norm_type="avg_trace"), lines 398-407
avg_trace(matrix) ==
  IF matrix.ndim = 0 THEN matrix.e[1]
  ELSE IF matrix.ndim = 1 THEN XDiv(XSum(matrix.e), OfInt(matrix.n))
  ELSE XDiv(XSum([i \in 1..matrix.n |-> At(matrix, i, i)]), OfInt(matrix.n))

\* whether the Cholesky factorisation of a symmetric 1 x 1 or 2 x 2 matrix
\* succeeds (every pivot finite and positive)
CholeskyOk(m) ==
  /\ \A k \in 1..Len(m.e) : IsFinite(m.e[k])
  /\ XGreater(At(m, 1, 1), Zero)
  /\ m.n = 2 =>
       XGreater(XSub(XMul(At(m, 1, 1), At(m, 2, 2)),
                     XMul(At(m, 2, 1), At(m, 2, 1))), Zero)

\* linalg.solve(m, identity, assume_a="pos") for a 1 x 1 or 2 x 2 matrix:
\* the inverse when the Cholesky factorisation succeeds, NaN when it fails
SolvePos(m) ==
  IF ~CholeskyOk(m) THEN NaNLike(m)
  ELSE IF m.n = 1 THEN Matrix(1, <<XInv(At(m, 1, 1))>>)
  ELSE LET det == XSub(XMul(At(m, 1, 1), At(m, 2, 2)),
                       XMul(At(m, 1, 2), At(m, 2, 1)))
       IN  Matrix(2, <<XDiv(At(m, 2, 2), det), XDiv(XNeg(At(m, 1, 2)), det),
                       XDiv(XNeg(At(m, 2, 1)), det), XDiv(At(m, 1, 1), det)>>)

\* lines 337-346
psd_inv_cholesky(matrix, damp) ==
  SolvePos(MatAdd(matrix, MatScale(Eye(matrix.n), damp)))

DiagInverseUndamped(u, d_hat) == MapArray(u, XInv)

\* line 515: 1.0 / (u + d_hat)
DiagInverse(u, d_hat) ==
  [u EXCEPT !.e = [i \in 1..Len(u.e) |-> XInv(XAdd(u.e[i], d_hat))]]

Norms(arrs) == [i \in 1..Len(arrs) |-> avg_trace(arrs[i])]       \* line 479
Us(arrs) ==                                                      \* line 482
  LET norms == Norms(arrs)
  IN  [i \in 1..Len(arrs) |-> ArrayDiv(arrs[i], norms[i])]
CoefC(arrs) == XProd(Norms(arrs))                                \* line 486
NonScalars(arrs) == Cardinality({i \in 1..Len(arrs) : Size(arrs[i]) # 1})  \* line 492

\* c_k and d_hat of regular_inverse, lines 495-501 (d_hat is not bound when
\* every factor is a scalar, and is not read then)
RegularCk(arrs, damp) ==
  IF NonScalars(arrs) = 0
    THEN XRoot(XAdd(CoefC(arrs), damp), Len(arrs))
    ELSE XRoot(CoefC(arrs), Len(arrs))
RegularDHat(arrs, damp) ==
  IF NonScalars(arrs) = 0 THEN NaN
  ELSE XRoot(XDiv(damp, CoefC(arrs)), NonScalars(arrs))

\* lines 490-519
regular_inverse(arrs, damp) ==
  LET us == Us(arrs)
      c_k == RegularCk(arrs, damp)
      d_hat == RegularDHat(arrs, damp)
  IN  [i \in 1..Len(arrs) |->
         LET u == us[i]
             inv == IF Size(u) = 1 THEN OnesLike(u)
                    ELSE IF u.ndim = 2 THEN psd_inv_cholesky(u, d_hat)
                    ELSE DiagInverse(u, d_hat)
         IN  ArrayDiv(inv, c_k)]

\* lines 521-541
zero_inverse(arrs, damp) ==
  LET us == Us(arrs)
      c_k == XRoot(damp, Len(arrs))
  IN  [i \in 1..Len(arrs) |->
         LET u == us[i]
             inv == IF u.ndim = 2 THEN Eye(u.n) ELSE OnesLike(u)
         IN  ArrayDiv(inv, c_k)]

CondGreaterEqual(c) == XGreater(c, Zero) \/ c = Zero

\* line 546: the predicate of lax.cond
CondGreater(c) == XGreater(c, Zero)

\* the branches a call runs: lines 543-551
BranchesRun(arrs) ==
  IF get_special_case_zero_inv
    THEN (IF CondGreater(CoefC(arrs)) THEN {"regular"} ELSE {"zero"})
    ELSE {"regular"}

\* every root the call takes is a rational (or Inf / NaN)
RootsExact(arrs, damp) ==
  IF "regular" \in BranchesRun(arrs)
    THEN IF NonScalars(arrs) = 0
           THEN RootExact(XAdd(CoefC(arrs), damp), Len(arrs))
           ELSE /\ RootExact(CoefC(arrs), Len(arrs))
                /\ RootExact(XDiv(damp, CoefC(arrs)), NonScalars(arrs))
    ELSE RootExact(damp, Len(arrs))

\* lines 444-551
pi_adjusted_kronecker_inverse(arrs, damp) ==
  IF "regular" \in BranchesRun(arrs)
    THEN regular_inverse(arrs, damp)
    ELSE zero_inverse(arrs, damp)

MaxFactors == 3     \* largest number of factors of one call

FactorPool ==
  { Scalar(One), Scalar(Zero), Scalar(OfInt(-1)), Scalar(NaN),
    Vector(<<One, OfInt(3)>>), Vector(<<Zero, Zero>>),
    Matrix(2, <<OfInt(4), OfInt(2), OfInt(2), OfInt(4)>>),
    Matrix(2, <<Zero, Zero, Zero, Zero>>),
    Matrix(1, <<OfInt(4)>>) }

Dampings == {Zero, One, OfInt(4)}

FactorTuples == UNION {[1..k -> FactorPool] : k \in 1..MaxFactors}

\* lines 46-49
SetSpecialCaseZeroInv ==
  /\ inv_call = 0
  /\ \E value \in BOOLEAN : special_case_zero_inv' = value
  /\ UNCHANGED <<inv_call, arrays, damping, inv_branches, inv_result>>

\* one call of pi_adjusted_kronecker_inverse(*arrays, damping=damping)
PiAdjustedCall ==
  /\ inv_call = 0
  /\ \E arrs \in FactorTuples, damp \in Dampings :
       /\ RootsExact(arrs, damp) = TRUE
       /\ arrays' = arrs
       /\ damping' = damp
       /\ inv_branches' = BranchesRun(arrs)
       /\ inv_result' = pi_adjusted_kronecker_inverse(arrs, damp)
  /\ inv_call' = 1
  /\ UNCHANGED special_case_zero_inv

\* the caller drops the result; the global flag stays as it is
PiAdjustedExit ==
  /\ inv_call = 1
  /\ inv_call' = 0
  /\ arrays' = <<>> /\ damping' = Zero /\ inv_branches' = {} /\ inv_result' = <<>>
  /\ UNCHANGED special_case_zero_inv

\* the module is imported: _SPECIAL_CASE_ZERO_INV = True (line 43)
InitInv ==
  /\ special_case_zero_inv = TRUE /\ inv_call = 0 /\ arrays = <<>>
  /\ damping = Zero /\ inv_branches = {} /\ inv_result = <<>>

-----------------------------------------------------------------------------
(* kronecker_product_axis_mul_v and kronecker_eigen_basis_axis_mul_v       *)
(* (lines 554-662).  A tensor is [shape, e]: e holds the entries in row    *)
(* major order.  Axes are numbered from 0, as in the code.                 *)

Tensor(shape, e) == [shape |-> shape, e |-> e]
Rank(v) == Len(v.shape)

RECURSIVE Concat(_)
Concat(seqs) == IF seqs = <<>> THEN <<>> ELSE Head(seqs) \o Concat(Tail(seqs))

RECURSIVE SeqMin(_)
SeqMin(g) == IF Len(g) = 1 THEN g[1] ELSE Min2(Head(g), SeqMin(Tail(g)))
RECURSIVE SeqMax(_)
SeqMax(g) == IF Len(g) = 1 THEN g[1] ELSE Max2(Head(g), SeqMax(Tail(g)))

Range(n) == [i \in 1..n |-> i - 1]             \* tuple(range(n))
Some(x) == <<x>>                                \* a value that is not None

\* lines 578-581
DefaultAxisGroups(axis_groups, v) ==
  IF axis_groups = None THEN [i \in 1..Rank(v) |-> <<i - 1>>]
  ELSE axis_groups[1]

\* lines 592-593: transpose is [is_bool, flags]
TransposeFlags(transpose, factors) ==
  IF transpose.is_bool THEN [i \in 1..Len(factors) |-> transpose.flags[1]]
  ELSE transpose.flags

FactorEntrySwapped(factor, z, y, t) == IF t THEN At(factor, z, y) ELSE At(factor, y, z)

\* line 599: "yz" if t else "zy", the factor's entry that multiplies v[y]
\* in the sum for result[z]
FactorEntry(factor, z, y, t) == IF t THEN At(factor, y, z) ELSE At(factor, z, y)

\* lines 605-616: result with the axes min(group)..max(group) of shape
\* folded into one axis and contracted with factor
Contract(result, shape, group, factor, t) ==
  LET lo == SeqMin(group)
      hi == SeqMax(group)
      pre == IProd(SubSeq(shape, 1, lo))
      post == IProd(SubSeq(shape, hi + 2, Len(shape)))
      mid == Len(result) \div (pre * post)
  IN  [k \in 1..Len(result) |->
         LET q == (k - 1) % post
             z == ((k - 1) \div post) % mid
             p == (k - 1) \div (post * mid)
         IN  XSum([y \in 1..mid |->
                     XMul(FactorEntry(factor, z + 1, y, t),
                          result[(p * mid + (y - 1)) * post + q + 1])])]

\* the loop of lines 603-616 from its i-th iteration; acc is
\* [status, value, contractions]
RECURSIVE ContractLoop(_, _, _, _, _, _)
ContractLoop(acc, shape, groups, factors, flags, i) ==
  IF i > Min2(Len(groups), Min2(Len(factors), Len(flags))) THEN acc
  ELSE IF groups[i] = <<>>
    THEN [acc EXCEPT !.status = "ValueError_min_of_empty_group"]
  ELSE LET lo == SeqMin(groups[i])
           hi == SeqMax(groups[i])
           mid == Len(acc.value) \div
                    (IProd(SubSeq(shape, 1, lo))
                       * IProd(SubSeq(shape, hi + 2, Len(shape))))
       IN  IF factors[i].n # mid
             THEN [acc EXCEPT !.status = "ShapeError_einsum"]
             ELSE ContractLoop(
                    [status |-> "ok",
                     value |-> Contract(acc.value, shape, groups[i], factors[i],
                                        flags[i]),
                     contractions |-> acc.contractions + 1],
                    shape, groups, factors, flags, i + 1)

\* lines 554-618: the outcome [status, value, contractions]; value is the
\* flat result of shape v.shape
kronecker_product_axis_mul_v(factors, v, axis_groups, transpose) ==
  LET groups == DefaultAxisGroups(axis_groups, v)
      failed(what) == [status |-> what, value |-> <<>>, contractions |-> 0]
  IN  IF Concat(groups) # Range(Rank(v))
        THEN failed("ValueError_axis_groups")
      ELSE IF Len(factors) # Len(groups)
        THEN failed("ValueError_number_of_factors")
      ELSE IF ~transpose.is_bool /\ Len(transpose.flags) # Len(factors)
        THEN failed("ValueError_transpose_length")
      ELSE ContractLoop([status |-> "ok", value |-> v.e, contractions |-> 0],
                        v.shape, groups, factors,
                        TransposeFlags(transpose, factors), 1)

\* line 558: transpose defaults to False
DefaultTranspose == [is_bool |-> TRUE, flags |-> <<FALSE>>]

ProjectNotTransposed == [is_bool |-> TRUE, flags |-> <<FALSE>>]

\* line 654: the projection onto the eigenbasis passes transpose=True
ProjectTransposed == [is_bool |-> TRUE, flags |-> <<TRUE>>]

\* lines 621-662
kronecker_eigen_basis_axis_mul_v(q_factors, eigenvalues, v, axis_groups) ==
  LET q_proj_v == kronecker_product_axis_mul_v(q_factors, v, axis_groups,
                                               ProjectTransposed)
  IN  IF q_proj_v.status # "ok" THEN q_proj_v
      ELSE IF eigenvalues.shape # v.shape
        THEN [status |-> "ValueError_eigenvalues_shape", value |-> <<>>,
              contractions |-> q_proj_v.contractions]
      ELSE LET eig_weighted_v ==
                 Tensor(v.shape, [k \in 1..Len(v.e) |->
                                    XMul(eigenvalues.e[k], q_proj_v.value[k])])
               back == kronecker_product_axis_mul_v(
                         q_factors, eig_weighted_v, axis_groups,
                         DefaultTranspose)
           IN  [back EXCEPT !.contractions = @ + q_proj_v.contractions]

\* The calls the model makes.
MaxAxisSize == 2
Ranks == {0, 1, 2, 3}

RECURSIVE ShapesOfRank(_)
ShapesOfRank(r) ==
  IF r = 0 THEN {<<>>}
  ELSE {<<d>> \o rest : d \in 1..MaxAxisSize, rest \in ShapesOfRank(r - 1)}

Ramp(shape) == Tensor(shape, [k \in 1..IProd(shape) |-> OfInt(k)])
Wave(shape) == Tensor(shape, [k \in 1..IProd(shape) |-> OfInt(((k * k) % 5) - 2)])
TensorPool(shape) == {Ramp(shape), Wave(shape)}

\* square factors of size n: a non-symmetric matrix without zero entries
\* pattern, an orthonormal signed cyclic permutation, and the identity
General(n) == Matrix(n, [k \in 1..(n * n) |->
                           OfInt(((2 * ((k - 1) \div n) + 3 * ((k - 1) % n) + k * k) % 5) - 1)])
SignedCycle(n) == Matrix(n, [k \in 1..(n * n) |->
                               LET i == (k - 1) \div n
                                   j == (k - 1) % n
                               IN  IF j # (i + 1) % n THEN Zero
                                   ELSE IF i = n - 1 THEN OfInt(-1) ELSE One])
FactorsOfSize(n) == {General(n), SignedCycle(n), Eye(n)}

RECURSIVE Compositions(_, _)
\* the splits of the axes start..r-1 into non-empty consecutive groups
Compositions(start, r) ==
  IF start >= r THEN {<<>>}
  ELSE UNION {{<<[i \in 1..(end - start + 1) |-> start + i - 1]>> \o rest :
                 rest \in Compositions(end + 1, r)} : end \in start..(r - 1)}

Reversed(seq) == [i \in 1..Len(seq) |-> seq[Len(seq) + 1 - i]]
InsertAt(seq, p, x) == SubSeq(seq, 1, p) \o <<x>> \o SubSeq(seq, p + 1, Len(seq))

\* a split and its neighbours: with an empty group inserted, with the groups
\* or the axes of each group reversed, with an axis too many, with the last
\* group missing, with the first group repeated
Variants(gs, r) ==
  {gs, Reversed(gs), [i \in 1..Len(gs) |-> Reversed(gs[i])], Append(gs, <<r>>)}
    \cup {InsertAt(gs, p, <<>>) : p \in 0..Len(gs)}
    \cup (IF gs = <<>> THEN {}
          ELSE {SubSeq(gs, 1, Len(gs) - 1), Append(gs, gs[1])})

AxisGroupOptions(r) ==
  {None} \cup {Some(gs) : gs \in UNION {Variants(c, r) : c \in Compositions(0, r)}}

\* the size a factor needs for the group, 1 where the group names no axis
GroupSize(shape, group) ==
  IProd([i \in 1..Len(group) |->
           IF group[i] + 1 \in 1..Len(shape) THEN shape[group[i] + 1] ELSE 1])

\* factors of the given number: of the group's size where there is a group
UniformFactors(shape, groups, count, Pick(_)) ==
  [i \in 1..count |->
     Pick(IF i <= Len(groups) THEN GroupSize(shape, groups[i]) ELSE 1)]

RECURSIVE FactorCombos(_, _)
FactorCombos(shape, groups) ==
  IF groups = <<>> THEN {<<>>}
  ELSE {<<f>> \o rest : f \in FactorsOfSize(GroupSize(shape, Head(groups))),
                        rest \in FactorCombos(shape, Tail(groups))}

GroupsOf(shape, axis_groups) ==
  IF axis_groups = None THEN [i \in 1..Len(shape) |-> <<i - 1>>]
  ELSE axis_groups[1]

\* factors that fit the groups, one kind of matrix throughout
FittingFactors(shape, axis_groups) ==
  LET groups == GroupsOf(shape, axis_groups)
  IN  {UniformFactors(shape, groups, Len(groups), General),
       UniformFactors(shape, groups, Len(groups), SignedCycle)}

\* one factor too few, one too many, a first factor of the wrong size
MisfitFactors(shape, axis_groups) ==
  LET groups == GroupsOf(shape, axis_groups)
      n == Len(groups)
  IN  {UniformFactors(shape, groups, n + 1, General)}
        \cup (IF n > 0
                THEN {UniformFactors(shape, groups, n - 1, General),
                      [UniformFactors(shape, groups, n, General)
                         EXCEPT ![1] = General(GroupSize(shape, groups[1]) + 1)]}
                ELSE {})

FactorOptions(shape, axis_groups) ==
  (IF axis_groups = None THEN FactorCombos(shape, GroupsOf(shape, axis_groups))
   ELSE FittingFactors(shape, axis_groups))
    \cup MisfitFactors(shape, axis_groups)

RECURSIVE FlagSeqs(_)
FlagSeqs(n) ==
  IF n = 0 THEN {<<>>} ELSE {<<b>> \o rest : b \in BOOLEAN, rest \in FlagSeqs(n - 1)}

BoolTransposes == {[is_bool |-> TRUE, flags |-> <<b>>] : b \in BOOLEAN}

\* a flag per factor, one flag too many, one too few
SeqTransposes(n) ==
  {[is_bool |-> FALSE, flags |-> [i \in 1..n |-> (i % 2 = 1) = first]] :
     first \in BOOLEAN}
    \cup {[is_bool |-> FALSE, flags |-> [i \in 1..(n + 1) |-> TRUE]]}
    \cup (IF n > 0 THEN {[is_bool |-> FALSE, flags |-> [i \in 1..(n - 1) |-> FALSE]]}
          ELSE {})

TransposeOptions(shape, axis_groups, factors) ==
  IF factors \in FittingFactors(shape, axis_groups)
    THEN BoolTransposes \cup SeqTransposes(Len(factors))
           \cup (IF axis_groups = None
                   THEN {[is_bool |-> FALSE, flags |-> fl] :
                           fl \in FlagSeqs(Len(factors))}
                   ELSE {})
  ELSE IF factors \in MisfitFactors(shape, axis_groups)
    THEN {DefaultTranspose} \cup SeqTransposes(Len(factors))
  ELSE BoolTransposes

EigenvalueOptions(shape) ==
  {Tensor(shape, [k \in 1..IProd(shape) |-> One]), Ramp(shape),
   Tensor(shape \o <<1>>, [k \in 1..IProd(shape) |-> One])}

KronIdle == kron_in = <<>> /\ kron_out = <<>>

KronMulCall ==
  /\ KronIdle
  /\ \E r \in Ranks : \E shape \in ShapesOfRank(r) :
     \E axis_groups \in AxisGroupOptions(r) :
     \E factors \in FactorOptions(shape, axis_groups) :
     \E transpose \in TransposeOptions(shape, axis_groups, factors) :
     \E v \in IF axis_groups = None THEN TensorPool(shape) ELSE {Ramp(shape)} :
       /\ kron_in' = [op |-> "kronecker_product_axis_mul_v",
                      factors |-> factors, v |-> v, axis_groups |-> axis_groups,
                      transpose |-> transpose, eigenvalues |-> <<>>]
       /\ kron_out' = kronecker_product_axis_mul_v(factors, v, axis_groups,
                                                   transpose)

KronEigenBasisCall ==
  /\ KronIdle
  /\ \E r \in Ranks : \E shape \in ShapesOfRank(r) :
     \E axis_groups \in {None} \cup {Some(c) : c \in Compositions(0, r)}
                          \cup {Some([i \in 1..r |-> <<r - i>>])} :
     \E q_factors \in FactorOptions(shape, axis_groups) :
     \E eigenvalues \in EigenvalueOptions(shape) :
     \E v \in {Ramp(shape)} :
       /\ kron_in' = [op |-> "kronecker_eigen_basis_axis_mul_v",
                      factors |-> q_factors, v |-> v,
                      axis_groups |-> axis_groups,
                      transpose |-> DefaultTranspose,
                      eigenvalues |-> eigenvalues]
       /\ kron_out' = kronecker_eigen_basis_axis_mul_v(q_factors, eigenvalues,
                                                       v, axis_groups)

KronExit ==
  /\ ~KronIdle
  /\ kron_in' = <<>>
  /\ kron_out' = <<>>

-----------------------------------------------------------------------------
(* _host_eigh, _eigh and safe_psd_eigh (lines 707-770).                    *)
(* The two eigensolvers are external: what one returns is a choice over    *)
(* the outcomes a solver can produce for a d x d input (eigenvalues that   *)
(* may be slightly negative or NaN, eigenvectors of either sign), and the  *)
(* host solver may also fail to converge and raise.                        *)

MaxDim == 2        \* largest dimension d of the input of safe_psd_eigh

XEntries == {Zero, One, NaN}       \* entries of the input matrix
SolverEigenvalues == {OfInt(-1), One, NaN}

\* the symmetric d x d matrices over XEntries
SymmetricInputs(d) ==
  {m \in {Matrix(d, e) : e \in [1..(d * d) -> XEntries]} :
     \A i, j \in 1..d : At(m, i, j) = At(m, j, i)}
EighInputs == UNION {SymmetricInputs(d) : d \in 1..MaxDim}

SolverOutcomes(d) ==
  {[s |-> ev, q |-> qm] :
     ev \in [1..d -> SolverEigenvalues],
     qm \in {Eye(d), MatScale(Eye(d), OfInt(-1))}}

AnyNaNOnDiagonal(x) == \E i \in 1..x.n : IsNaN(At(x, i, i))

\* jnp.any(jnp.isnan(x)), line 761
AnyNaN(x) == \E k \in 1..Len(x.e) : IsNaN(x.e[k])

AllNaNValue(sv) == \A k \in 1..Len(sv) : IsNaN(sv[k])

\* jnp.any(jnp.isnan(s)), line 730
AnyNaNValue(sv) == \E k \in 1..Len(sv) : IsNaN(sv[k])

FullNaN(n) == [k \in 1..n |-> NaN]        \* jnp.full(shape, jnp.nan)

ClipNaNToZero(sv) ==
  [k \in 1..Len(sv) |-> IF XGreater(sv[k], Zero) THEN sv[k] ELSE Zero]

\* jnp.clip(s, a_min=0.0), line 770: NaN stays NaN
Clip(sv) ==
  [k \in 1..Len(sv) |-> IF XGreater(Zero, sv[k]) THEN Zero ELSE sv[k]]

\* safe_psd_eigh(x, force_on_host) is called: lines 756-766, the predicate
\* of the outer lax.cond and, for an input with a NaN, its first branch
SafePsdEighEnter ==
  /\ eigh_pc = "idle"
  /\ \E x \in EighInputs, force \in BOOLEAN :
       /\ eigh_x' = x
       /\ force_on_host' = force
       /\ IF AnyNaN(x)
            THEN /\ eigh_s' = FullNaN(x.n)
                 /\ eigh_q' = Matrix(x.n, FullNaN(x.n * x.n))
                 /\ eigh_src' = "nan_input"
                 /\ eigh_pc' = "clip"
            ELSE /\ eigh_s' = <<>> /\ eigh_q' = <<>>
                 /\ eigh_src' = "none"
                 /\ eigh_pc' = "eigh"
  /\ std_runs' = 0 /\ host_runs' = 0
  /\ eigh_ret' = <<>>

\* _eigh with force_on_host: lines 722-723, and _host_eigh returning
ForcedHostEigh ==
  /\ eigh_pc = "eigh"
  /\ force_on_host
  /\ \E r \in SolverOutcomes(eigh_x.n) :
       eigh_s' = r.s /\ eigh_q' = r.q
  /\ eigh_src' = "host"
  /\ host_runs' = host_runs + 1
  /\ eigh_pc' = "clip"
  /\ UNCHANGED <<eigh_x, force_on_host, std_runs, eigh_ret>>

\* _eigh without force_on_host: line 725, jnp.linalg.eigh
StandardEigh ==
  /\ eigh_pc = "eigh"
  /\ ~force_on_host
  /\ \E r \in SolverOutcomes(eigh_x.n) :
       eigh_s' = r.s /\ eigh_q' = r.q
  /\ eigh_src' = "standard"
  /\ std_runs' = std_runs + 1
  /\ eigh_pc' = "fallback"
  /\ UNCHANGED <<eigh_x, force_on_host, host_runs, eigh_ret>>

\* lines 729-734, NaN among the eigenvalues: _host_eigh(x, s, q)
FallbackHostEigh ==
  /\ eigh_pc = "fallback"
  /\ AnyNaNValue(eigh_s)
  /\ \E r \in SolverOutcomes(eigh_x.n) :
       eigh_s' = r.s /\ eigh_q' = r.q
  /\ eigh_src' = "host"
  /\ host_runs' = host_runs + 1
  /\ eigh_pc' = "clip"
  /\ UNCHANGED <<eigh_x, force_on_host, std_runs, eigh_ret>>

\* lines 729-734, no NaN: lambda *args: args[1:]
KeepStandard ==
  /\ eigh_pc = "fallback"
  /\ ~AnyNaNValue(eigh_s)
  /\ eigh_pc' = "clip"
  /\ UNCHANGED <<eigh_x, force_on_host, eigh_s, eigh_q, eigh_src, std_runs,
                 host_runs, eigh_ret>>

\* np.linalg.eigh does not converge: the callback raises
HostEighRaises ==
  /\ \/ eigh_pc = "eigh" /\ force_on_host
     \/ eigh_pc = "fallback" /\ AnyNaNValue(eigh_s)
  /\ host_runs' = host_runs + 1
  /\ eigh_pc' = "error"
  /\ UNCHANGED <<eigh_x, force_on_host, eigh_s, eigh_q, eigh_src, std_runs,
                 eigh_ret>>

\* line 770
ClipAndReturn ==
  /\ eigh_pc = "clip"
  /\ eigh_ret' = [s |-> Clip(eigh_s), q |-> eigh_q]
  /\ eigh_pc' = "done"
  /\ UNCHANGED <<eigh_x, force_on_host, eigh_s, eigh_q, eigh_src, std_runs,
                 host_runs>>

EighIdle ==
  /\ eigh_pc = "idle" /\ eigh_x = <<>> /\ force_on_host = FALSE
  /\ eigh_s = <<>> /\ eigh_q = <<>> /\ eigh_src = "none"
  /\ std_runs = 0 /\ host_runs = 0 /\ eigh_ret = <<>>

\* the call has returned or raised
SafePsdEighExit ==
  /\ eigh_pc \in {"done", "error"}
  /\ eigh_pc' = "idle" /\ eigh_x' = <<>> /\ force_on_host' = FALSE
  /\ eigh_s' = <<>> /\ eigh_q' = <<>> /\ eigh_src' = "none"
  /\ std_runs' = 0 /\ host_runs' = 0 /\ eigh_ret' = <<>>

-----------------------------------------------------------------------------
(* psd_matrix_norm (lines 343-441).  The matrix is a tensor [shape, e].    *)

RECURSIVE XMax(_)
\* jnp.max of a non-empty array without NaN
XMax(s) ==
  IF Len(s) = 1 THEN s[1]
  ELSE LET rest == XMax(Tail(s)) IN IF XGreater(Head(s), rest) THEN Head(s) ELSE rest

\* the rank 0, rank 1 or square rank 2 tensor as an array [ndim, n, e]
AsArray(t) ==
  [ndim |-> Len(t.shape), n |-> IF t.shape = <<>> THEN 1 ELSE t.shape[1],
   e |-> t.e]

SumOfSquares(t) == XSum([k \in 1..Len(t.e) |-> XMul(t.e[k], t.e[k])])

\* the largest eigenvalue of a symmetric PSD matrix, which is what both
\* lobpcg_standard (lines 384-385) and optax.power_iteration (lines 388-389)
\* converge to: in closed form for 1 x 1 and 2 x 2, the largest diagonal
\* entry for a larger (diagonal) matrix
LargestEigenvalue(m) ==
  IF m.n = 1 THEN m.e[1]
  ELSE IF m.n = 2
    THEN LET a == At(m, 1, 1)
             b == At(m, 1, 2)
             c == At(m, 2, 2)
             disc == XAdd(XMul(XSub(a, c), XSub(a, c)),
                          XMul(OfInt(4), XMul(b, b)))
         IN  XDiv(XAdd(XAdd(a, c), XRoot(disc, 2)), OfInt(2))
  ELSE XMax([i \in 1..m.n |-> At(m, i, i)])

\* jnp.linalg.norm(matrix, ord=1): the largest absolute column sum
MaxColumnSum(m) ==
  XMax([j \in 1..m.n |-> XSum([i \in 1..m.n |-> XAbs(At(m, i, j))])])

IsAny2D(matrix) == Len(matrix.shape) = 2

\* matrix.ndim == 2 and matrix.shape[0] == matrix.shape[1]
IsSquare2D(matrix) == Len(matrix.shape) = 2 /\ matrix.shape[1] = matrix.shape[2]

NormReturn(x) == [status |-> "ok", value |-> x]
NormRaise(what) == [status |-> what, value |-> <<>>]

\* lines 368-441
psd_matrix_norm(matrix, norm_type, method_2norm, rng_key) ==
  LET ndim == Len(matrix.shape)
      unsupported == NormRaise("ValueError_unsupported_shape")
  IN  IF norm_type = "2_norm" THEN
        IF ndim = 0 THEN NormReturn(matrix.e[1])
        ELSE IF ndim = 1 THEN NormReturn(XMax(matrix.e))
        ELSE IF IsSquare2D(matrix) THEN
          IF method_2norm = "lobpcg"
            THEN NormReturn(LargestEigenvalue(AsArray(matrix)))
          ELSE IF method_2norm = "power_iteration"
            THEN NormReturn(LargestEigenvalue(AsArray(matrix)))
          ELSE NormRaise("ValueError_unrecognized_method")
        ELSE unsupported
      ELSE IF norm_type = "avg_trace" THEN
        IF ndim \in {0, 1} \/ IsSquare2D(matrix)
          THEN NormReturn(avg_trace(AsArray(matrix)))
          ELSE unsupported
      ELSE IF norm_type = "1_norm" THEN
        IF ndim = 0 THEN NormReturn(matrix.e[1])
        ELSE IF ndim = 1 THEN NormReturn(XMax(matrix.e))
        ELSE IF IsSquare2D(matrix) THEN NormReturn(MaxColumnSum(AsArray(matrix)))
        ELSE unsupported
      ELSE IF norm_type = "avg_fro" THEN
        IF ndim = 0 THEN NormReturn(matrix.e[1])
        ELSE IF ndim = 1 \/ IsSquare2D(matrix)
          THEN NormReturn(XRoot(XDiv(SumOfSquares(matrix),
                                     OfInt(matrix.shape[1])), 2))
        ELSE unsupported
      ELSE NormRaise("ValueError_unrecognized_norm_type")

NormTypes == {"2_norm", "avg_trace", "1_norm", "avg_fro", "fro", "trace"}
Methods2Norm == {"lobpcg", "power_iteration", "svd", ""}
RngKeys == {None, Some(123), Some(7)}

IntTensor(shape, ints) == Tensor(shape, [k \in 1..Len(ints) |-> OfInt(ints[k])])

\* PSD inputs of every supported rank, and arrays that are not square
\* matrices
NormMatrices ==
  {IntTensor(<<>>, <<3>>), IntTensor(<<>>, <<0>>),
   IntTensor(<<2>>, <<1, 7>>), IntTensor(<<3>>, <<2, 2, 2>>),
   IntTensor(<<1, 1>>, <<5>>), IntTensor(<<2, 2>>, <<4, 3, 3, 4>>),
   IntTensor(<<2, 2>>, <<1, 0, 0, 7>>),
   IntTensor(<<3, 3>>, <<3, 0, 0, 0, 3, 0, 0, 0, 3>>),
   IntTensor(<<2, 3>>, <<1, 0, 0, 0, 1, 0>>),
   IntTensor(<<1, 2>>, <<1, 2>>),
   IntTensor(<<1, 1, 1>>, <<1>>),
   IntTensor(<<2, 2, 2>>, <<1, 0, 0, 1, 1, 0, 0, 1>>)}

CallIdle == call_in = <<>> /\ call_out = <<>>

PsdMatrixNormCall ==
  /\ CallIdle
  /\ \E matrix \in NormMatrices, norm_type \in NormTypes,
        method_2norm \in Methods2Norm, rng_key \in RngKeys :
       /\ call_in' = [op |-> "psd_matrix_norm", matrix |-> matrix,
                      norm_type |-> norm_type, method_2norm |-> method_2norm,
                      rng_key |-> rng_key]
       /\ call_out' = psd_matrix_norm(matrix, norm_type, method_2norm, rng_key)

\* Direct calls of weighted_sum_of_objects (lines 102-134).
MaxObjects == 3

Objects == {<<OfInt(1)>>, <<OfInt(2)>>, <<OfInt(1), OfInt(2)>>, <<OfInt(3), OfInt(1)>>}
Coefficients == {One, OfInt(2)}

RECURSIVE SeqsOf(_, _)
\* the sequences of exactly n elements of S
SeqsOf(S, n) ==
  IF n = 0 THEN {<<>>} ELSE {<<x>> \o rest : x \in S, rest \in SeqsOf(S, n - 1)}

WeightedSumCall ==
  /\ CallIdle
  /\ \E n \in 0..MaxObjects : \E objects \in SeqsOf(Objects, n) :
     \E k \in {n, n + 1} \cup (IF n > 0 THEN {n - 1} ELSE {}) :
     \E coefficients \in SeqsOf(Coefficients, k) :
       /\ call_in' = [op |-> "weighted_sum_of_objects", objects |-> objects,
                      coefficients |-> coefficients]
       /\ call_out' = weighted_sum_of_objects(objects, coefficients)

\* inner_product (lines 171-196) with in_float64 False: [status, value]
inner_product(obj1, obj2) ==
  IF ~abstract_objects_equal(obj1, obj2)
    THEN [status |-> "ValueError_abstract_structure", value |-> NaN]
    ELSE [status |-> "ok",
          value |-> XSum([k \in 1..Len(obj1) |-> XMul(obj1[k], obj2[k])])]

\* a caller's ip_function that is not symmetric in its arguments: the
\* first entry of obj1 minus twice the first entry of obj2
first_entry_difference(obj1, obj2) ==
  [status |-> "ok", value |-> XSub(obj1[1], XMul(OfInt(2), obj2[1]))]

IpFunctions == {"inner_product", "first_entry_difference"}

ip_function(name, obj1, obj2) ==
  IF name = "inner_product" THEN inner_product(obj1, obj2)
  ELSE first_entry_difference(obj1, obj2)

\* lines 222-227: what is appended to m[i] at column j (i, j from 1)
RECURSIVE InnerProductEntry(_, _, _, _, _)
InnerProductEntry(vectors1, vectors2, name, i, j) ==
  IF j < i THEN InnerProductEntry(vectors1, vectors2, name, j, i)
  ELSE ip_function(name, vectors1[i], vectors2[j])

\* lines 199-229: [status, m], m the rows of the matrix
symmetric_matrix_inner_products(vectors1, vectors2, name) ==
  IF Len(vectors1) # Len(vectors2)
    THEN [status |-> "ValueError_sequence_lengths", m |-> <<>>]
  ELSE LET n == Len(vectors1)
           entry(i, j) == InnerProductEntry(vectors1, vectors2, name, i, j)
       IN  IF \E i \in 1..n : \E j \in i..n : entry(i, j).status # "ok"
             THEN [status |-> "ValueError_abstract_structure", m |-> <<>>]
             ELSE [status |-> "ok",
                   m |-> [i \in 1..n |-> [j \in 1..n |-> entry(i, j).value]]]

\* lines 232-248
matrix_of_inner_products(vectors, name) ==
  symmetric_matrix_inner_products(vectors, vectors, name)

IpVectors == {<<OfInt(1)>>, <<OfInt(2)>>, <<OfInt(3), OfInt(1)>>}

SymmetricInnerProductsCall ==
  /\ CallIdle
  /\ \E n \in 0..MaxObjects : \E vectors1 \in SeqsOf(IpVectors, n) :
     \E k \in {n, n + 1} \cup (IF n > 0 THEN {n - 1} ELSE {}) :
     \E vectors2 \in SeqsOf(IpVectors, k) : \E name \in IpFunctions :
       /\ call_in' = [op |-> "symmetric_matrix_inner_products",
                      vectors1 |-> vectors1, vectors2 |-> vectors2,
                      ip_function |-> name]
       /\ call_out' = symmetric_matrix_inner_products(vectors1, vectors2, name)

MatrixOfInnerProductsCall ==
  /\ CallIdle
  /\ \E n \in 0..MaxObjects : \E vectors \in SeqsOf(IpVectors, n) :
     \E name \in IpFunctions :
       /\ call_in' = [op |-> "matrix_of_inner_products",
                      vectors1 |-> vectors, vectors2 |-> vectors,
                      ip_function |-> name]
       /\ call_out' = matrix_of_inner_products(vectors, name)

\* block_permuted (lines 275-311).  The matrix is a square array
\* [ndim, n, e]; blocks and rows are numbered from 0, as in the code.

RECURSIVE ISum(_)
ISum(s) == IF s = <<>> THEN 0 ELSE Head(s) + ISum(Tail(s))

\* np.cumsum(block_sizes)[:-1]
SplitIndices(block_sizes) ==
  [b \in 1..(Len(block_sizes) - 1) |-> ISum(SubSeq(block_sizes, 1, b))]

\* jnp.split(matrix, indices, axis): the rows (or columns) of block b, the
\* last block taking what is left of the n rows
BlockRows(n, indices, b) ==
  LET first == IF b = 0 THEN 0 ELSE Min2(indices[b], n)
      last == IF b = Len(indices) THEN n ELSE Min2(indices[b + 1], n)
  IN  [k \in 1..(last - first) |-> first + k - 1]

\* the slot of block b in the result when the blocks are sent to the
\* slots block_order names, instead of taken from them
RowsOfBlocksSentTo(n, block_sizes, block_order) ==
  LET indices == SplitIndices(block_sizes)
      slot(b) == IF \E i \in 1..Len(block_order) : block_order[i] = b
                   THEN CHOOSE i \in 1..Len(block_order) : block_order[i] = b
                   ELSE b + 1
  IN  Concat([i \in 1..Len(block_order) |->
                BlockRows(n, indices, slot(i - 1) - 1)])

\* line 310: the source rows (and columns) of the result, block after
\* block in the order block_order
RowsInOrder(n, block_sizes, block_order) ==
  LET indices == SplitIndices(block_sizes)
  IN  Concat([i \in 1..Len(block_order) |->
                BlockRows(n, indices, block_order[i])])

\* lines 275-311: [status, value]
block_permuted(matrix, block_sizes, block_order) ==
  IF Len(block_sizes) # Len(block_order)
    THEN [status |-> "ValueError_lengths", value |-> <<>>]
  ELSE IF \A i \in 1..Len(block_order) : block_order[i] = i - 1
    THEN [status |-> "ok", value |-> matrix]
  ELSE LET src == RowsInOrder(matrix.n, block_sizes, block_order)
           size == Len(src)
       IN  [status |-> "ok",
            value |-> Matrix(size, [k \in 1..(size * size) |->
                        At(matrix, src[((k - 1) \div size) + 1] + 1,
                                   src[((k - 1) % size) + 1] + 1)])]

MaxBlockDim == 3

\* the ways of splitting n rows into blocks of at least one row
BlockSizesOf(n) ==
  {[i \in 1..Len(c) |-> Len(c[i])] : c \in Compositions(0, n)}

BlockMatrices(n) ==
  {Matrix(n, [k \in 1..(n * n) |-> OfInt(k)]),
   Matrix(n, [k \in 1..(n * n) |-> OfInt((k * k) % 7)])}

BlockPermutedCall ==
  /\ CallIdle
  /\ \E n \in 1..MaxBlockDim : \E matrix \in BlockMatrices(n) :
     \E block_sizes \in BlockSizesOf(n) :
     \E k \in {Len(block_sizes) - 1, Len(block_sizes), Len(block_sizes) + 1} :
     \E block_order \in SeqsOf(0..(Len(block_sizes) - 1), k) :
       /\ call_in' = [op |-> "block_permuted", matrix |-> matrix,
                      block_sizes |-> block_sizes, block_order |-> block_order]
       /\ call_out' = block_permuted(matrix, block_sizes, block_order)

CallExit ==
  /\ ~CallIdle
  /\ call_in' = <<>>
  /\ call_out' = <<>>

-----------------------------------------------------------------------------
(* The specifications: one per component, the other components at rest.    *)

StillInv == InitInv

StillKron == KronIdle

StillEigh == EighIdle

StillCalls == CallIdle

InitAvgSpec == InitAvg /\ StillInv /\ StillKron /\ StillEigh /\ StillCalls

NextAvg ==
  \/ AverageFuncEnter /\ UNCHANGED <<inv_vars, kron_vars, eigh_vars, call_vars>>
  \/ SinglePass /\ UNCHANGED <<inv_vars, kron_vars, eigh_vars, call_vars>>
  \/ ScanStep /\ UNCHANGED <<inv_vars, kron_vars, eigh_vars, call_vars>>
  \/ ScanDone /\ UNCHANGED <<inv_vars, kron_vars, eigh_vars, call_vars>>
  \/ ReturnAveraged /\ UNCHANGED <<inv_vars, kron_vars, eigh_vars, call_vars>>
  \/ RemainderPass /\ UNCHANGED <<inv_vars, kron_vars, eigh_vars, call_vars>>
  \/ AverageFuncExit /\ UNCHANGED <<inv_vars, kron_vars, eigh_vars, call_vars>>

SpecAvg == InitAvgSpec /\ [][NextAvg]_vars

InitInvSpec == InitInv /\ StillAvg /\ StillKron /\ StillEigh /\ StillCalls

NextInv ==
  \/ SetSpecialCaseZeroInv /\ UNCHANGED <<avg_vars, kron_vars, eigh_vars, call_vars>>
  \/ PiAdjustedCall /\ UNCHANGED <<avg_vars, kron_vars, eigh_vars, call_vars>>
  \/ PiAdjustedExit /\ UNCHANGED <<avg_vars, kron_vars, eigh_vars, call_vars>>

SpecInv == InitInvSpec /\ [][NextInv]_vars

InitEighSpec == EighIdle /\ StillAvg /\ StillInv /\ StillKron /\ StillCalls

NextEigh ==
  \/ SafePsdEighEnter /\ UNCHANGED <<avg_vars, inv_vars, kron_vars, call_vars>>
  \/ ForcedHostEigh /\ UNCHANGED <<avg_vars, inv_vars, kron_vars, call_vars>>
  \/ StandardEigh /\ UNCHANGED <<avg_vars, inv_vars, kron_vars, call_vars>>
  \/ FallbackHostEigh /\ UNCHANGED <<avg_vars, inv_vars, kron_vars, call_vars>>
  \/ KeepStandard /\ UNCHANGED <<avg_vars, inv_vars, kron_vars, call_vars>>
  \/ HostEighRaises /\ UNCHANGED <<avg_vars, inv_vars, kron_vars, call_vars>>
  \/ ClipAndReturn /\ UNCHANGED <<avg_vars, inv_vars, kron_vars, call_vars>>
  \/ SafePsdEighExit /\ UNCHANGED <<avg_vars, inv_vars, kron_vars, call_vars>>

SpecEigh == InitEighSpec /\ [][NextEigh]_vars

InitKronSpec == KronIdle /\ StillAvg /\ StillInv /\ StillEigh /\ StillCalls

NextKron ==
  \/ KronMulCall /\ UNCHANGED <<avg_vars, inv_vars, eigh_vars, call_vars>>
  \/ KronEigenBasisCall /\ UNCHANGED <<avg_vars, inv_vars, eigh_vars, call_vars>>
  \/ KronExit /\ UNCHANGED <<avg_vars, inv_vars, eigh_vars, call_vars>>

SpecKron == InitKronSpec /\ [][NextKron]_vars

InitCallsSpec == CallIdle /\ StillAvg /\ StillInv /\ StillKron /\ StillEigh

NextCalls ==
  \/ PsdMatrixNormCall /\ UNCHANGED <<avg_vars, inv_vars, kron_vars, eigh_vars>>
  \/ WeightedSumCall /\ UNCHANGED <<avg_vars, inv_vars, kron_vars, eigh_vars>>
  \/ SymmetricInnerProductsCall
       /\ UNCHANGED <<avg_vars, inv_vars, kron_vars, eigh_vars>>
  \/ MatrixOfInnerProductsCall
       /\ UNCHANGED <<avg_vars, inv_vars, kron_vars, eigh_vars>>
  \/ BlockPermutedCall /\ UNCHANGED <<avg_vars, inv_vars, kron_vars, eigh_vars>>
  \/ CallExit /\ UNCHANGED <<avg_vars, inv_vars, kron_vars, eigh_vars>>

SpecCalls == InitCallsSpec /\ [][NextCalls]_vars

\* One caller that makes one call at a time of the averager, the Kronecker
\* products or weighted_sum_of_objects.  The last two read nothing of the
\* averager and are called beside the averager that StillAvg describes.
InitProgram == InitAvg /\ KronIdle /\ CallIdle /\ StillInv /\ StillEigh

NextProgram ==
  \/ KronIdle /\ CallIdle /\ AverageFuncEnter
       /\ UNCHANGED <<inv_vars, kron_vars, eigh_vars, call_vars>>
  \/ SinglePass /\ UNCHANGED <<inv_vars, kron_vars, eigh_vars, call_vars>>
  \/ ScanStep /\ UNCHANGED <<inv_vars, kron_vars, eigh_vars, call_vars>>
  \/ ScanDone /\ UNCHANGED <<inv_vars, kron_vars, eigh_vars, call_vars>>
  \/ ReturnAveraged /\ UNCHANGED <<inv_vars, kron_vars, eigh_vars, call_vars>>
  \/ RemainderPass /\ UNCHANGED <<inv_vars, kron_vars, eigh_vars, call_vars>>
  \/ AverageFuncExit /\ UNCHANGED <<inv_vars, kron_vars, eigh_vars, call_vars>>
  \/ StillAvg /\ CallIdle /\ KronMulCall
       /\ UNCHANGED <<avg_vars, inv_vars, eigh_vars, call_vars>>
  \/ StillAvg /\ CallIdle /\ KronEigenBasisCall
       /\ UNCHANGED <<avg_vars, inv_vars, eigh_vars, call_vars>>
  \/ KronExit /\ UNCHANGED <<avg_vars, inv_vars, eigh_vars, call_vars>>
  \/ StillAvg /\ KronIdle /\ WeightedSumCall
       /\ UNCHANGED <<avg_vars, inv_vars, kron_vars, eigh_vars>>
  \/ CallExit /\ UNCHANGED <<avg_vars, inv_vars, kron_vars, eigh_vars>>

SpecProgram == InitProgram /\ [][NextProgram]_vars

-----------------------------------------------------------------------------
(* Claims about loop_and_parallelize_average, checked under SpecAvg.       *)

\* the sum of func over every example of the batch, element j
FuncTotal(j) ==
  XSum([i \in 1..leading_size |-> func(ExampleAt(args, i - 1), func_size)[j]])

\* C1: for every batch, every per-example output size and every
\* max_parallel_size (None or a positive integer) the value average_func
\* returns is exactly the mean of func over all leading_size examples:
\* returned[j] * leading_size = sum over i of func(example_i)[j].
C1_ExactMean ==
  avg_pc = "done" =>
    /\ avg_result.status = "ok"
    /\ Len(avg_result.value) = func_size
    /\ \A j \in 1..func_size :
         XMul(avg_result.value[j], OfInt(leading_size)) = FuncTotal(j)

\* a call that made two scan chunks and a remainder pass over a batch whose
\* examples differ has returned
C1_Witness ==
  /\ avg_pc = "done"
  /\ num_parallel_chunks >= 2
  /\ remainder_size >= 1
  /\ func_size = 2
  /\ \E i, k \in 1..leading_size : args[1][i] # args[1][k]
  /\ avg_result.value # averaged_value

PassSize(k) == passes[k][2]

-----------------------------------------------------------------------------
(* Claims about pi_adjusted_kronecker_inverse, checked under SpecInv.      *)

IsZeroArray(a) == \A k \in 1..Len(a.e) : a.e[k] = Zero
NonNegative(x) == IsFinite(x) /\ x[1] >= 0

\* a valid PSD factor (rank-2 factors are 1 x 1 or 2 x 2)
IsPSD(a) ==
  /\ \A k \in 1..Len(a.e) : IsFinite(a.e[k])
  /\ IF a.ndim < 2 THEN \A k \in 1..Len(a.e) : NonNegative(a.e[k])
     ELSE /\ \A i \in 1..a.n : NonNegative(At(a, i, i))
          /\ \A i, j \in 1..a.n : At(a, i, j) = At(a, j, i)
          /\ a.n = 2 => NonNegative(XSub(XMul(At(a, 1, 1), At(a, 2, 2)),
                                         XMul(At(a, 1, 2), At(a, 2, 1))))

DenseAll(arrs) == [i \in 1..Len(arrs) |-> Dense(arrs[i])]

\* (kron(arrays) + damping * I) * kron(returned factors)
DampedTimesResult ==
  LET k == Kron(DenseAll(arrays))
  IN  MatMul(MatAdd(k, MatScale(Eye(k.n), damping)), Kron(DenseAll(inv_result)))

SolverTol == <<1, 1000>>

WithinTol(m, tol) ==
  \A k \in 1..Len(m.e) : XLeq(XAbs(XSub(m.e[k], Eye(m.n).e[k])), tol)

ValidCall ==
  /\ inv_call = 1
  /\ \A i \in 1..Len(arrays) : IsPSD(arrays[i])
  /\ XGreater(damping, Zero)

C3_BranchSelection ==
  inv_call = 1 =>
    IF special_case_zero_inv
      THEN inv_branches =
             (IF XGreater(CoefC(arrays), Zero) THEN {"regular"} ELSE {"zero"})
      ELSE inv_branches = {"regular"}

\* the flag was set to false and a call whose c is NaN ran the regular branch
C3_Witness ==
  /\ inv_call = 1
  /\ ~special_case_zero_inv
  /\ IsNaN(CoefC(arrays))
  /\ inv_branches = {"regular"}

\* r is damp^(-1/k) times the identity (rank 2) or the all-ones array (rank
\* 0 or 1) of the shape of a, with finite entries
ScaledIdentityLike(r, a, damp, k) ==
  /\ r.ndim = a.ndim /\ r.n = a.n /\ Len(r.e) = Len(a.e)
  /\ \A idx \in 1..Len(r.e) :
       IF a.ndim = 2 /\ (idx - 1) \div a.n # (idx - 1) % a.n
         THEN r.e[idx] = Zero
         ELSE /\ IsFinite(r.e[idx])
              /\ XGreater(r.e[idx], Zero)
              /\ XMul(XPowN(r.e[idx], k), damp) = One

ZeroFactorCall ==
  /\ inv_call = 1
  /\ special_case_zero_inv
  /\ \E i \in 1..Len(arrays) : IsZeroArray(arrays[i])

\* C4 as stated: with a zero factor and the flag enabled, for every damping
\* >= 0 every returned factor is finite and equals damping^(-1/k) times the
\* identity or the all-ones array of the input factor's shape.
C4_ZeroFactorAnyDamping ==
  ZeroFactorCall =>
    \A i \in 1..Len(arrays) :
      ScaledIdentityLike(inv_result[i], arrays[i], damping, Len(arrays))

\* C4 as amended: the same for every damping > 0 (at damping = 0 the zero
\* branch divides by 0 and returns Inf and NaN entries).
C4_ZeroFactorPositiveDamping ==
  (ZeroFactorCall /\ XGreater(damping, Zero)) =>
    \A i \in 1..Len(arrays) :
      ScaledIdentityLike(inv_result[i], arrays[i], damping, Len(arrays))

\* a call with a zero 2 x 2 matrix and a non-zero vector under damping 4
C4_Witness ==
  /\ ZeroFactorCall
  /\ damping = OfInt(4)
  /\ Len(arrays) = 2
  /\ arrays[1] = Matrix(2, <<Zero, Zero, Zero, Zero>>)
  /\ arrays[2] = Vector(<<One, OfInt(3)>>)
  /\ inv_branches = {"zero"}
  /\ inv_result[1] = Matrix(2, <<Q(1, 2), Zero, Zero, Q(1, 2)>>)

-----------------------------------------------------------------------------
(* Claims about safe_psd_eigh, checked under SpecEigh.                     *)

HasNaNEntry(x) == \E i, j \in 1..x.n : At(x, i, j) = NaN

\* C7: on a d x d input with at least one NaN entry safe_psd_eigh returns
\* (length-d vector of NaN, d x d matrix of NaN) without raising and without
\* running the standard or the host eigensolver, for both values of
\* force_on_host.
C7_NaNInputShortCircuits ==
  (eigh_pc # "idle" /\ HasNaNEntry(eigh_x)) =>
    /\ std_runs = 0 /\ host_runs = 0
    /\ eigh_pc \in {"clip", "done"}
    /\ eigh_pc = "done" =>
         /\ eigh_ret.s = [k \in 1..eigh_x.n |-> NaN]
         /\ eigh_ret.q.ndim = 2 /\ eigh_ret.q.n = eigh_x.n
         /\ eigh_ret.q.e = [k \in 1..(eigh_x.n * eigh_x.n) |-> NaN]

\* a forced-host call on a 2 x 2 input whose only NaN entries are off the
\* diagonal has returned
C7_Witness ==
  /\ eigh_pc = "done"
  /\ force_on_host
  /\ eigh_x = Matrix(2, <<One, NaN, NaN, One>>)
  /\ eigh_ret.s = <<NaN, NaN>>

\* C8: every eigenvalue safe_psd_eigh returns is >= 0 or NaN, whatever the
\* solvers produced: a negative eigenvalue is returned as 0, and a NaN
\* eigenvalue is returned unchanged, not replaced by 0.
C8_ClippedOrNaN ==
  eigh_pc = "done" =>
    /\ Len(eigh_ret.s) = Len(eigh_s)
    /\ \A k \in 1..Len(eigh_ret.s) :
         /\ IsNaN(eigh_ret.s[k]) \/ XLeq(Zero, eigh_ret.s[k])
         /\ IsNaN(eigh_ret.s[k]) <=> IsNaN(eigh_s[k])
         /\ XGreater(Zero, eigh_s[k]) => eigh_ret.s[k] = Zero
         /\ XLeq(Zero, eigh_s[k]) => eigh_ret.s[k] = eigh_s[k]

\* the standard solver returned a NaN eigenvalue, the host fallback returned
\* a negative and a NaN eigenvalue, and the call returned <<0, NaN>>
C8_Witness ==
  /\ eigh_pc = "done"
  /\ std_runs = 1 /\ host_runs = 1
  /\ eigh_s = <<OfInt(-1), NaN>>
  /\ eigh_ret.s = <<Zero, NaN>>


-----------------------------------------------------------------------------
(* Claims about kronecker_product_axis_mul_v and                           *)
(* kronecker_eigen_basis_axis_mul_v, checked under SpecKron.               *)

MatVec(m, x) ==
  [i \in 1..m.n |-> XSum([j \in 1..m.n |-> XMul(At(m, i, j), x[j])])]

InKronMul == ~KronIdle /\ kron_in.op = "kronecker_product_axis_mul_v"
InKronEigen == ~KronIdle /\ kron_in.op = "kronecker_eigen_basis_axis_mul_v"

\* one square factor per axis of v, of the size of that axis
FactorsConformToAxes ==
  /\ Len(kron_in.factors) = Rank(kron_in.v)
  /\ \A i \in 1..Rank(kron_in.v) : kron_in.factors[i].n = kron_in.v.shape[i]

\* groups splits the axes 0..r-1 into non-empty groups of consecutive
\* axes in increasing order
IsConsecutiveSplit(groups, r) ==
  /\ \A i \in 1..Len(groups) :
       /\ groups[i] # <<>>
       /\ \A p \in 1..(Len(groups[i]) - 1) : groups[i][p + 1] = groups[i][p] + 1
  /\ \A i \in 1..(Len(groups) - 1) :
       groups[i + 1][1] = groups[i][Len(groups[i])] + 1
  /\ IF groups = <<>> THEN r = 0
     ELSE /\ groups[1][1] = 0
          /\ groups[Len(groups)][Len(groups[Len(groups)])] = r - 1

CallGroups ==
  IF kron_in.axis_groups = None THEN [i \in 1..Rank(kron_in.v) |-> <<i - 1>>]
  ELSE kron_in.axis_groups[1]

\* C5: called with factors and v only (axis_groups None, transpose False),
\* v of rank 2 or 3 and one square factor per axis of that axis' size, the
\* function returns kron(factors) times the row-major vectorization of v,
\* in the shape of v, after one contraction per factor.
C5_MatchesFullKronecker ==
  (/\ InKronMul
   /\ kron_in.axis_groups = None
   /\ kron_in.transpose = DefaultTranspose
   /\ Rank(kron_in.v) \in {2, 3}
   /\ FactorsConformToAxes)
    => /\ kron_out.status = "ok"
       /\ kron_out.value = MatVec(Kron(kron_in.factors), kron_in.v.e)
       /\ kron_out.contractions = Rank(kron_in.v)

C5_Witness ==
  /\ InKronMul
  /\ kron_in.axis_groups = None
  /\ kron_in.transpose = DefaultTranspose
  /\ kron_in.v = Ramp(<<2, 1, 2>>)
  /\ kron_in.factors = <<General(2), Eye(1), SignedCycle(2)>>
  /\ kron_out.status = "ok"
  /\ kron_out.value # kron_in.v.e

AllOnes(t) == \A k \in 1..Len(t.e) : t.e[k] = One
Orthonormal(m) == MatMul(m, Transposed(m)) = Eye(m.n)

\* kron(Q) diag(E) kron(Q)^T rvec(v)
EigenBasisReference ==
  LET K == Kron(kron_in.factors)
      projected == MatVec(Transposed(K), kron_in.v.e)
      weighted == [k \in 1..Len(projected) |->
                     XMul(kron_in.eigenvalues.e[k], projected[k])]
  IN  MatVec(K, weighted)

\* C6: with square q_factors that conform to the axes (or to the groups of
\* a consecutive split) of v and eigenvalues of the shape of v, the result
\* is kron(Q) diag(E) kron(Q)^T rvec(v) in the shape of v; with all
\* eigenvalues one and every q_factor orthonormal it is v itself.
C6_EigenBasisProduct ==
  (/\ InKronEigen
   /\ IsConsecutiveSplit(CallGroups, Rank(kron_in.v))
   /\ Len(kron_in.factors) = Len(CallGroups)
   /\ \A i \in 1..Len(CallGroups) :
        kron_in.factors[i].n = GroupSize(kron_in.v.shape, CallGroups[i])
   /\ kron_in.eigenvalues.shape = kron_in.v.shape)
    => /\ kron_out.status = "ok"
       /\ kron_out.value = EigenBasisReference
       /\ (AllOnes(kron_in.eigenvalues)
             /\ (\A i \in 1..Len(kron_in.factors) :
                   Orthonormal(kron_in.factors[i])))
            => kron_out.value = kron_in.v.e

C6_Witness ==
  /\ InKronEigen
  /\ kron_in.axis_groups = None
  /\ kron_in.v = Ramp(<<2, 2>>)
  /\ kron_in.factors = <<SignedCycle(2), SignedCycle(2)>>
  /\ AllOnes(kron_in.eigenvalues)
  /\ kron_out.status = "ok"
  /\ kron_out.value = kron_in.v.e
  /\ kron_out.contractions = 4

ValidationErrors ==
  {"ValueError_axis_groups", "ValueError_number_of_factors",
   "ValueError_transpose_length"}

PassesTheStatedChecks ==
  /\ IsConsecutiveSplit(CallGroups, Rank(kron_in.v))
  /\ Len(kron_in.factors) = Len(CallGroups)
  /\ kron_in.transpose.is_bool
       \/ Len(kron_in.transpose.flags) = Len(kron_in.factors)

ReachedContraction ==
  kron_out.contractions >= 1 \/ kron_out.status = "ShapeError_einsum"

\* C9: kronecker_product_axis_mul_v reaches its first contraction only when
\* axis_groups splits the axes of v into non-empty groups of consecutive
\* axes in increasing order, with one factor per group and, for a sequence
\* transpose, one flag per factor; every other input ends in one of the
\* three validation errors raised before the loop.
C9_OnlyValidSplitsContract ==
  InKronMul =>
    /\ ReachedContraction => PassesTheStatedChecks
    /\ ~PassesTheStatedChecks => kron_out.status \in ValidationErrors

\* the part of C9 that holds once no group is empty
C9_HoldsWithoutEmptyGroups ==
  (InKronMul /\ \A i \in 1..Len(CallGroups) : CallGroups[i] # <<>>) =>
    /\ ReachedContraction => PassesTheStatedChecks
    /\ ~PassesTheStatedChecks => kron_out.status \in ValidationErrors

C9_EmptyGroupAfterContraction ==
  /\ InKronMul
  /\ kron_in.axis_groups = Some(<<<<0>>, <<>>, <<1>>>>)
  /\ Len(kron_in.factors) = 3
  /\ kron_out.status = "ValueError_min_of_empty_group"
  /\ kron_out.contractions = 1

-----------------------------------------------------------------------------
(* Claims about psd_matrix_norm, checked under SpecCalls.                  *)

InNorm == ~CallIdle /\ call_in.op = "psd_matrix_norm"

KnownNormTypes == {"2_norm", "avg_trace", "1_norm", "avg_fro"}
KnownMethods == {"lobpcg", "power_iteration"}

\* rank 0, rank 1 or a square rank 2 array
SupportedShape(shape) ==
  Len(shape) \in {0, 1} \/ (Len(shape) = 2 /\ shape[1] = shape[2])

NormValueErrors ==
  {"ValueError_unsupported_shape", "ValueError_unrecognized_method",
   "ValueError_unrecognized_norm_type"}

\* C11 as stated: an unknown norm_type, an unknown method_2norm or an
\* unsupported matrix shape each make psd_matrix_norm raise ValueError,
\* whatever the other arguments are.
C11_EveryInvalidArgumentRaises ==
  InNorm =>
    ((\/ call_in.norm_type \notin KnownNormTypes
      \/ call_in.method_2norm \notin KnownMethods
      \/ ~SupportedShape(call_in.matrix.shape))
       => call_out.status \in NormValueErrors)

\* C11, amended: psd_matrix_norm raises ValueError exactly when norm_type
\* is unknown, or the matrix is not rank 0, rank 1 or square rank 2, or
\* method_2norm is unknown in a call that uses it (norm_type "2_norm" on a
\* square rank 2 matrix); every other call returns a scalar.
C11_RaisesExactlyWhenArgumentUsed ==
  InNorm =>
    /\ call_out.status \in NormValueErrors \cup {"ok"}
    /\ call_out.status \in NormValueErrors
         <=> \/ call_in.norm_type \notin KnownNormTypes
             \/ ~SupportedShape(call_in.matrix.shape)
             \/ /\ call_in.norm_type = "2_norm"
                /\ Len(call_in.matrix.shape) = 2
                /\ call_in.method_2norm \notin KnownMethods
    /\ call_out.status = "ok" => Len(call_out.value) = 2

C11_Witness ==
  /\ InNorm
  /\ call_in.norm_type = "2_norm"
  /\ call_in.method_2norm = "svd"
  /\ call_in.matrix.shape = <<2, 2>>
  /\ call_out.status = "ValueError_unrecognized_method"

-----------------------------------------------------------------------------
(* Claims about when a mismatch is reported, checked under SpecProgram.    *)

InWeightedSum == ~CallIdle /\ call_in.op = "weighted_sum_of_objects"

AvgMismatchRaised ==
  avg_pc = "error" /\ avg_result.status = "ValueError_leading_sizes"

FirstMismatch(objects) ==
  CHOOSE k \in 2..Len(objects) :
    /\ Len(objects[k]) # Len(objects[1])
    /\ \A j \in 2..(k - 1) : Len(objects[j]) = Len(objects[1])

-----------------------------------------------------------------------------
(* Claims about symmetric_matrix_inner_products, checked under SpecCalls.  *)

InInnerProducts ==
  /\ ~CallIdle
  /\ call_in.op \in {"symmetric_matrix_inner_products", "matrix_of_inner_products"}

IsSymmetric(m) == \A i, j \in 1..Len(m) : m[i][j] = m[j][i]

\* C13: for two sequences of equal length and any ip_function the result
\* is a symmetric matrix with m[i, j] = ip(vectors1[i], vectors2[j]) for
\* all i >= j, also when the two sequences differ; sequences of different
\* length are rejected with an error.
C13_LowerTriangleIsInnerProduct ==
  InInnerProducts =>
    /\ Len(call_in.vectors1) # Len(call_in.vectors2)
         => call_out.status = "ValueError_sequence_lengths"
    /\ call_out.status = "ok" =>
         /\ IsSymmetric(call_out.m)
         /\ \A i, j \in 1..Len(call_in.vectors1) :
              i >= j => call_out.m[i][j]
                          = ip_function(call_in.ip_function, call_in.vectors1[i],
                                        call_in.vectors2[j]).value

\* what the code computes: the entries with i <= j are the inner
\* products, the others are their mirror images
C13_UpperTriangleIsInnerProduct ==
  InInnerProducts =>
    /\ Len(call_in.vectors1) # Len(call_in.vectors2)
         => call_out.status = "ValueError_sequence_lengths"
    /\ call_out.status = "ok" =>
         /\ IsSymmetric(call_out.m)
         /\ \A i, j \in 1..Len(call_in.vectors1) :
              i <= j => call_out.m[i][j]
                          = ip_function(call_in.ip_function, call_in.vectors1[i],
                                        call_in.vectors2[j]).value

\* vectors1 = ([1], [2]), vectors2 = ([2], [1]) with the default inner
\* product: m[1, 0] is 1 = <vectors1[0], vectors2[1]>, not
\* <vectors1[1], vectors2[0]> = 4
C13_MirroredEntry ==
  /\ InInnerProducts
  /\ call_in.ip_function = "inner_product"
  /\ call_in.vectors1 = <<<<OfInt(1)>>, <<OfInt(2)>>>>
  /\ call_in.vectors2 = <<<<OfInt(2)>>, <<OfInt(1)>>>>
  /\ call_out.status = "ok"
  /\ call_out.m = <<<<OfInt(2), OfInt(1)>>, <<OfInt(1), OfInt(2)>>>>

-----------------------------------------------------------------------------
(* Claims about block_permuted, checked under SpecCalls.                   *)

InBlockPermuted == ~CallIdle /\ call_in.op = "block_permuted"

IsPermutation(order) ==
  \A b \in 0..(Len(order) - 1) : \E i \in 1..Len(order) : order[i] = b

\* the first row of block b (from 0) in a matrix split into sizes
BlockStart(sizes, b) == ISum(SubSeq(sizes, 1, b))

\* the sizes of the blocks of the result
PermutedSizes == [i \in 1..Len(call_in.block_order) |->
                    call_in.block_sizes[call_in.block_order[i] + 1]]

\* C14: for block_sizes that split the square matrix and a block_order
\* that is a permutation of the block indices, the block of the result at
\* block-row i and block-column j is the input block at (block_order[i],
\* block_order[j]); sizes [1,1,1] with order [2,0,1] turn the rows
\* (a,b,c), (d,e,f), (g,h,i) into (i,g,h), (c,a,b), (f,d,e); the
\* identity order returns the input; block_sizes and block_order of
\* different length are rejected.
C14_BlocksPermuted ==
  InBlockPermuted =>
    /\ Len(call_in.block_sizes) # Len(call_in.block_order)
         <=> call_out.status = "ValueError_lengths"
    /\ (Len(call_in.block_sizes) = Len(call_in.block_order)
          /\ IsPermutation(call_in.block_order))
         => /\ call_out.status = "ok"
            /\ call_out.value.n = call_in.matrix.n
            /\ \A i, j \in 1..Len(call_in.block_order) :
               \A a \in 1..PermutedSizes[i], b \in 1..PermutedSizes[j] :
                 At(call_out.value, BlockStart(PermutedSizes, i - 1) + a,
                                    BlockStart(PermutedSizes, j - 1) + b)
                   = At(call_in.matrix,
                        BlockStart(call_in.block_sizes, call_in.block_order[i]) + a,
                        BlockStart(call_in.block_sizes, call_in.block_order[j]) + b)
            /\ (\A i \in 1..Len(call_in.block_order) : call_in.block_order[i] = i - 1)
                 => call_out.value = call_in.matrix
            /\ (call_in.block_sizes = <<1, 1, 1>> /\ call_in.block_order = <<2, 0, 1>>)
                 => call_out.value.e
                      = [k \in 1..9 |->
                           call_in.matrix.e[<<9, 7, 8, 3, 1, 2, 6, 4, 5>>[k]]]

C14_Witness ==
  /\ InBlockPermuted
  /\ call_in.block_sizes = <<1, 1, 1>>
  /\ call_in.block_order = <<2, 0, 1>>
  /\ call_in.matrix.e = [k \in 1..9 |-> OfInt(k)]
  /\ call_out.status = "ok"
  /\ call_out.value.e = [k \in 1..9 |-> OfInt(<<9, 7, 8, 3, 1, 2, 6, 4, 5>>[k])]

-----------------------------------------------------------------------------
(* Claims about the solvers safe_psd_eigh runs, checked under SpecEigh.    *)

SomeNaN(sv) == \E k \in 1..Len(sv) : sv[k] = NaN

NoNaNCall == eigh_pc # "idle" /\ ~HasNaNEntry(eigh_x)

HostRunsNow == host_runs' = host_runs + 1
StandardRunsNow == std_runs' = std_runs + 1

\* the solvers run so far in a call on an input without NaN
SolverRunsInOrder ==
  NoNaNCall =>
    /\ std_runs \in {0, 1} /\ host_runs \in {0, 1}
    /\ force_on_host => std_runs = 0
    /\ (~force_on_host /\ host_runs = 1) => std_runs = 1
    /\ eigh_pc \in {"clip", "done"} =>
         /\ force_on_host => host_runs = 1
         /\ ~force_on_host => std_runs = 1
         /\ host_runs = 1 <=> eigh_src = "host"
    /\ (eigh_pc = "done" /\ host_runs = 1) =>
         /\ eigh_ret.q = eigh_q
         /\ \A k \in 1..Len(eigh_s) :
              eigh_ret.s[k] = IF XGreater(Zero, eigh_s[k]) THEN Zero ELSE eigh_s[k]

\* what one step of a call on an input without NaN may do
SolverStep ==
  NoNaNCall =>
    /\ HostRunsNow =>
         \/ force_on_host /\ eigh_pc = "eigh"
         \/ ~force_on_host /\ eigh_pc = "fallback" /\ eigh_src = "standard"
              /\ SomeNaN(eigh_s)
    /\ StandardRunsNow => (~force_on_host /\ eigh_pc = "eigh" /\ host_runs = 0)
    /\ (eigh_pc = "eigh" /\ force_on_host) => (HostRunsNow /\ std_runs' = 0)
    /\ (eigh_pc = "eigh" /\ ~force_on_host) => (StandardRunsNow /\ host_runs' = 0)
    /\ eigh_pc = "fallback" => (HostRunsNow <=> SomeNaN(eigh_s))
    /\ (eigh_pc = "fallback" /\ ~SomeNaN(eigh_s)) =>
         (eigh_s' = eigh_s /\ eigh_q' = eigh_q /\ eigh_src' = "standard")
    /\ (eigh_src = "host" /\ eigh_pc' # "idle") =>
         (eigh_s' = eigh_s /\ eigh_q' = eigh_q /\ eigh_src' = "host"
            /\ host_runs' = host_runs /\ std_runs' = std_runs)

\* C15: in a call on an input without NaN the host solver runs if and only
\* if force_on_host is true or the standard solver's eigenvalues contain a
\* NaN; forced, the standard solver never runs; not forced, the standard
\* solver runs first and the host solver afterwards only on NaN
\* eigenvalues; when the host solver ran, the returned eigenvalues and
\* eigenvectors are the host's; no solver runs twice.
C15_HostIffForcedOrNaN == []SolverRunsInOrder /\ [][SolverStep]_vars

C15_Witness ==
  /\ eigh_pc = "done"
  /\ ~force_on_host
  /\ ~HasNaNEntry(eigh_x)
  /\ std_runs = 1 /\ host_runs = 1
  /\ eigh_src = "host"
  /\ eigh_ret.s = <<One, One>>

-----------------------------------------------------------------------------
(* Claims about the chunk schedule of loop_and_parallelize_average,        *)
(* checked under SpecAvg.                                                  *)

AvgRunning == avg_pc \in {"loop", "tail", "done"}

\* the passes of a whole call: the loop chunks, then the remainder
ExpectedPasses ==
  [k \in 1..num_parallel_chunks |-> <<(k - 1) * parallel_size, parallel_size>>]
    \o (IF remainder_size = 0 THEN <<>>
        ELSE <<<<num_parallel_chunks * parallel_size, remainder_size>>>>)

\* the number of passes made so far that evaluate example index i
TimesEvaluated(i) ==
  Cardinality({k \in 1..Len(passes) :
                 passes[k][1] <= i /\ i < passes[k][1] + passes[k][2]})

FitsInOnePass ==
  max_parallel_size = None \/ leading_size * func_size <= max_parallel_size[1]

\* C16: 1 <= parallel_size <= L, num_chunks = L // parallel_size >= 1,
\* 0 <= remainder = L % parallel_size < parallel_size and num_chunks *
\* parallel_size + remainder = L; the loop chunks are the consecutive
\* ranges of parallel_size examples and the remainder pass takes the last
\* remainder indices, so every example index is evaluated in exactly one
\* pass of a finished call and in at most one before; with no budget, or
\* one that holds L * s, there is one pass over all L examples and no
\* remainder pass.
C16_ChunkSchedule ==
  AvgRunning =>
    /\ leading_size >= 1
    /\ 1 <= parallel_size /\ parallel_size <= leading_size
    /\ num_parallel_chunks = leading_size \div parallel_size
    /\ num_parallel_chunks >= 1
    /\ remainder_size = leading_size % parallel_size
    /\ 0 <= remainder_size /\ remainder_size < parallel_size
    /\ num_parallel_chunks * parallel_size + remainder_size = leading_size
    /\ Len(passes) <= Len(ExpectedPasses)
    /\ passes = SubSeq(ExpectedPasses, 1, Len(passes))
    /\ \A i \in 0..(leading_size - 1) : TimesEvaluated(i) <= 1
    /\ avg_pc = "done" =>
         /\ passes = ExpectedPasses
         /\ \A i \in 0..(leading_size - 1) : TimesEvaluated(i) = 1
    /\ FitsInOnePass =>
         /\ parallel_size = leading_size
         /\ remainder_size = 0
         /\ avg_pc = "done" => passes = <<<<0, leading_size>>>>

C16_Witness ==
  /\ avg_pc = "done"
  /\ leading_size = 5
  /\ func_size = 1
  /\ max_parallel_size = <<2>>
  /\ passes = <<<<0, 2>>, <<2, 2>>, <<4, 1>>>>
====
